---- MODULE Spec2Model ----
(***************************************************************************)
(* A model of lvm.py: the LVM2 label / PV header / metadata-area reader    *)
(* and rewriter, and the text codec of the volume-group descriptor.        *)
(*                                                                         *)
(* Text is a sequence of code points, a file is a sequence of bytes        *)
(* (offset o of the file is element o + 1 of the sequence).  The model's   *)
(* byte alphabet is ASCII plus the byte 255, which no UTF-8 text contains. *)
(***************************************************************************)
EXTENDS Integers, Sequences, FiniteSets, TLC

VARIABLES
    mode,       \* which entry point of the program this behaviour exercises
    pc,         \* position inside that entry point
    disk,       \* the bytes of the device file
    fp,         \* the file handle: "none", "open" or "closed"
    nflush,     \* number of fp.flush() calls made
    nclose,     \* number of fp.close() calls made
    lbl_hdr,    \* Disk.lbl_hdr (LabelHeader.data), found_at: sector the scan stopped at
    pv_hdr,     \* Disk.pv_hdr: [pos, data_areas, meta_areas]
    hdr,        \* the MDAHeader object in use: [data, raw_locns]
    md,         \* the Metadata value in use (Metadata.data)
    raw,        \* the text / byte string in use
    area,       \* index of the metadata area Disk.read_metadata is at
    run,        \* number of completed Disk.read_metadata calls
    err,        \* the exception that ended the entry point, "" if none
    disk0,      \* history: the device before the current operation
    hist        \* history: what the operation under study observed

vars == <<mode, pc, disk, fp, nflush, nclose, lbl_hdr, pv_hdr, hdr, md, raw,
          area, run, err, disk0, hist>>

(***************************************************************************)
(* Characters                                                              *)
(***************************************************************************)
NUL == 0
TAB == 9
NL == 10
SP == 32
QUOTE == 34
HASH == 35
PLUS == 43
COMMA == 44
MINUS == 45
DIGIT0 == 48
EQUALS == 61
LBRACKET == 91
RBRACKET == 93
UNDERSCORE == 95
LBRACE == 123
RBRACE == 125

\* What \s and str.split() / str.strip() treat as whitespace, below 128.
IsSpace(c) == c \in {9, 10, 11, 12, 13, 28, 29, 30, 31, 32}

IsDigit(c) == c >= DIGIT0 /\ c <= DIGIT0 + 9

Min(a, b) == IF a < b THEN a ELSE b

Max(a, b) == IF a > b THEN a ELSE b

(***************************************************************************)
(* Values of the decoded metadata: int, str, list, dict (insertion order). *)
(***************************************************************************)
IntV(n) == [t |-> "int", v |-> n]

StrV(s) == [t |-> "str", v |-> s]

ListV(xs) == [t |-> "list", v |-> xs]

DictV(items) == [t |-> "dict", v |-> items]

Item(k, v) == [k |-> k, v |-> v]

\* d[k] = v on a Python dict: an existing key keeps its place.
DictSet(items, k, v) ==
    IF \E i \in 1..Len(items) : items[i].k = k
    THEN [i \in 1..Len(items) |-> IF items[i].k = k THEN Item(k, v) ELSE items[i]]
    ELSE Append(items, Item(k, v))

(***************************************************************************)
(* Metadata.decode_data: the substitutions and the split                   *)
(***************************************************************************)
\* re.sub(r"#.*\n", "", s): '.' does not match a newline, so a match runs
\* from a '#' to the first newline after it; a '#' with no newline after it
\* is left alone (and so is every later one).
RECURSIVE StripComments(_)
StripComments(s) ==
    IF s = <<>> THEN <<>>
    ELSE IF Head(s) = HASH
    THEN IF \E j \in 1..Len(s) : s[j] = NL
         THEN LET j == CHOOSE j \in 1..Len(s) :
                          s[j] = NL /\ \A i \in 1..(j - 1) : s[i] # NL
              IN  StripComments(SubSeq(s, j + 1, Len(s)))
         ELSE s
    ELSE <<Head(s)>> \o StripComments(Tail(s))

\* re.sub of a one-character pattern: every c in cs becomes repl.
RECURSIVE SubChars(_, _, _)
SubChars(s, cs, repl) ==
    IF s = <<>> THEN <<>>
    ELSE (IF Head(s) \in cs THEN repl ELSE <<Head(s)>>) \o SubChars(Tail(s), cs, repl)

\* re.sub(r"\s+", " ", s)
RECURSIVE CollapseSpace(_)
CollapseSpace(s) ==
    IF s = <<>> THEN <<>>
    ELSE IF IsSpace(Head(s))
    THEN IF Len(s) > 1 /\ IsSpace(s[2])
         THEN CollapseSpace(Tail(s))
         ELSE <<SP>> \o CollapseSpace(Tail(s))
    ELSE <<Head(s)>> \o CollapseSpace(Tail(s))

\* re.sub(r"\0$", "", s): '$' is the end of the text, or the place before a
\* final newline.
StripNul(s) ==
    IF Len(s) >= 1 /\ s[Len(s)] = NUL THEN SubSeq(s, 1, Len(s) - 1)
    ELSE IF Len(s) >= 2 /\ s[Len(s)] = NL /\ s[Len(s) - 1] = NUL
    THEN SubSeq(s, 1, Len(s) - 2) \o <<NL>>
    ELSE s

\* The substitutions, in the order the dictionary lists them.
Substitute(s) ==
    LET s1 == StripComments(s)
        s2 == SubChars(s1, {LBRACKET}, <<LBRACKET, SP>>)
        s3 == SubChars(s2, {RBRACKET}, <<SP, RBRACKET>>)
        s4 == SubChars(s3, {QUOTE}, <<SP, QUOTE, SP>>)
        s5 == SubChars(s4, {EQUALS, COMMA}, <<>>)
        s6 == CollapseSpace(s5)
    IN  StripNul(s6)

\* str.split(): the maximal runs of non-whitespace.
RECURSIVE SplitFrom(_, _)
SplitFrom(s, cur) ==
    IF s = <<>> THEN (IF cur = <<>> THEN <<>> ELSE <<cur>>)
    ELSE IF IsSpace(Head(s))
    THEN (IF cur = <<>> THEN <<>> ELSE <<cur>>) \o SplitFrom(Tail(s), <<>>)
    ELSE SplitFrom(Tail(s), Append(cur, Head(s)))

Split(s) == SplitFrom(s, <<>>)

\* str.strip()
RECURSIVE LStrip(_)
LStrip(s) == IF s # <<>> /\ IsSpace(Head(s)) THEN LStrip(Tail(s)) ELSE s

RECURSIVE RStrip(_)
RStrip(s) ==
    IF s # <<>> /\ IsSpace(s[Len(s)]) THEN RStrip(SubSeq(s, 1, Len(s) - 1)) ELSE s

Strip(s) == RStrip(LStrip(s))

(***************************************************************************)
(* int(token) and str(int)                                                 *)
(***************************************************************************)
Unsigned(tok) ==
    IF tok # <<>> /\ Head(tok) \in {PLUS, MINUS} THEN Tail(tok) ELSE tok

\* The literals int() accepts: an optional sign, then digits, single
\* underscores allowed between digits.
IsIntLiteral(tok) ==
    LET u == Unsigned(tok)
    IN  /\ u # <<>>
        /\ \A i \in 1..Len(u) : IsDigit(u[i]) \/ u[i] = UNDERSCORE
        /\ IsDigit(u[1]) /\ IsDigit(u[Len(u)])
        /\ \A i \in 1..(Len(u) - 1) : ~(u[i] = UNDERSCORE /\ u[i + 1] = UNDERSCORE)

RECURSIVE DigitsValue(_, _)
DigitsValue(u, acc) ==
    IF u = <<>> THEN acc
    ELSE IF Head(u) = UNDERSCORE THEN DigitsValue(Tail(u), acc)
    ELSE DigitsValue(Tail(u), acc * 10 + (Head(u) - DIGIT0))

ToInt(tok) ==
    LET n == DigitsValue(Unsigned(tok), 0)
    IN  IF Head(tok) = MINUS THEN 0 - n ELSE n

RECURSIVE NatToStr(_)
NatToStr(n) ==
    IF n < 10 THEN <<DIGIT0 + n>>
    ELSE Append(NatToStr(n \div 10), DIGIT0 + (n % 10))

IntToStr(n) == IF n < 0 THEN <<MINUS>> \o NatToStr(0 - n) ELSE NatToStr(n)

(***************************************************************************)
(* Metadata.decode_data: the parser.  A parse returns the value and the    *)
(* tokens left in `data`; ok is FALSE when an exception was raised         *)
(* (IndexError of data.pop(0) on an empty list, ValueError of int()).      *)
(***************************************************************************)
Ok(v, rest) == [ok |-> TRUE, val |-> v, rest |-> rest, exc |-> ""]

Raise(kind) == [ok |-> FALSE, val |-> IntV(0), rest |-> <<>>, exc |-> kind]

\* data.pop(0) on an empty list
IndexError == Raise("IndexError")

\* int() on a token that is no integer literal
ValueError == Raise("ValueError")

DICT_START == <<LBRACE>>

DICT_END == <<RBRACE>>

ARRAY_START == <<LBRACKET>>

ARRAY_END == <<RBRACKET>>

STRING_START == <<QUOTE>>

STRING_END == <<QUOTE>>

RECURSIVE parse_str_loop(_, _, _)
parse_str_loop(val, result, data) ==
    IF val = STRING_END THEN Ok(StrV(Strip(result)), data)
    ELSE IF data = <<>> THEN IndexError
    ELSE parse_str_loop(Head(data), result \o <<SP>> \o val, Tail(data))

parse_str(val, data) == parse_str_loop(val, <<>>, data)

parse_val(val, data) ==
    IF val = STRING_START
    THEN IF data = <<>> THEN IndexError ELSE parse_str(Head(data), Tail(data))
    ELSE IF IsIntLiteral(val) THEN Ok(IntV(ToInt(val)), data) ELSE ValueError

RECURSIVE parse_array_loop(_, _, _)
parse_array_loop(val, result, data) ==
    IF val = ARRAY_END THEN Ok(ListV(result), data)
    ELSE LET r == parse_val(val, data)
         IN  IF ~r.ok THEN r
             ELSE IF r.rest = <<>> THEN IndexError
             ELSE parse_array_loop(Head(r.rest), Append(result, r.val), Tail(r.rest))

parse_array(val, data) == parse_array_loop(val, <<>>, data)

RECURSIVE parse_dict_loop(_, _, _)
RECURSIVE parse_obj(_)
parse_dict_loop(val, result, data) ==
    IF val = DICT_END THEN Ok(DictV(result), data)
    ELSE LET r == parse_obj(data)
         IN  IF ~r.ok THEN r
             ELSE LET result2 == DictSet(result, val, r.val)
                  IN  IF r.rest = <<>> THEN Ok(DictV(result2), <<>>)
                      ELSE parse_dict_loop(Head(r.rest), result2, Tail(r.rest))

parse_dict(val, data) == parse_dict_loop(val, <<>>, data)

parse_obj(data) ==
    IF data = <<>> THEN IndexError
    ELSE LET val == Head(data)
             rest == Tail(data)
         IN  IF val = DICT_START
             THEN IF rest = <<>> THEN IndexError ELSE parse_dict(Head(rest), Tail(rest))
             ELSE IF val = ARRAY_START
             THEN IF rest = <<>> THEN IndexError ELSE parse_array(Head(rest), Tail(rest))
             ELSE parse_val(val, rest)

\* The parse of a token list: name = data.pop(0); obj = parse_dict(name).
\* `rest` is what the parse left unread in data.
parse_tokens(data) ==
    IF data = <<>> THEN IndexError ELSE parse_dict(Head(data), Tail(data))

decode_data(text) == parse_tokens(Split(Substitute(text)))

(***************************************************************************)
(* Metadata.encode_data                                                    *)
(***************************************************************************)
RECURSIVE encode_val(_)
RECURSIVE encode_dict(_)
RECURSIVE encode_join(_)
encode_join(xs) ==
    IF xs = <<>> THEN <<>>
    ELSE IF Len(xs) = 1 THEN encode_val(xs[1])
    ELSE encode_val(xs[1]) \o <<COMMA, SP>> \o encode_join(Tail(xs))

encode_val(v) ==
    IF v.t = "int" THEN IntToStr(v.v)
    ELSE IF v.t = "str" THEN <<QUOTE>> \o v.v \o <<QUOTE>>
    ELSE IF v.t = "list" THEN <<LBRACKET>> \o encode_join(v.v) \o <<RBRACKET>>
    ELSE <<LBRACE, NL>> \o encode_dict(v.v) \o <<RBRACE, NL>>

encode_dict(items) ==
    IF items = <<>> THEN <<>>
    ELSE LET it == Head(items)
         IN  it.k
             \o (IF it.v.t # "dict" THEN <<SP, EQUALS, SP>> ELSE <<SP>>)
             \o encode_val(it.v) \o <<NL>>
             \o encode_dict(Tail(items))

encode_data(items) == encode_dict(items) \o <<NUL>>

(***************************************************************************)
(* bytes.decode("utf-8") and str.encode("utf-8") on the model's alphabet:  *)
(* a byte below 128 is its own code point, the byte 255 is never valid.    *)
(***************************************************************************)
Utf8Valid(bytes) == \A i \in 1..Len(bytes) : bytes[i] < 128

Utf8Decode(bytes) == bytes

Utf8Encode(text) == text

(***************************************************************************)
(* _calc_crc.  A 32-bit value is kept as its 8 nibbles, lowest first.      *)
(***************************************************************************)
Bit(a, k) == (a \div (2 ^ k)) % 2

XorTab ==
    [a \in 0..15 |-> [b \in 0..15 |->
        ((Bit(a, 0) + Bit(b, 0)) % 2)
        + 2 * ((Bit(a, 1) + Bit(b, 1)) % 2)
        + 4 * ((Bit(a, 2) + Bit(b, 2)) % 2)
        + 8 * ((Bit(a, 3) + Bit(b, 3)) % 2)]]

Xor4(a, b) == XorTab[a][b]

crctab ==
    << <<0, 0, 0, 0, 0, 0, 0, 0>>,
       <<4, 6, 0, 1, 7, 11, 13, 1>>,
       <<8, 12, 0, 2, 14, 6, 11, 3>>,
       <<12, 10, 0, 3, 9, 13, 6, 2>>,
       <<0, 9, 1, 4, 12, 13, 6, 7>>,
       <<4, 15, 1, 5, 11, 6, 11, 6>>,
       <<8, 5, 1, 6, 2, 11, 13, 4>>,
       <<12, 3, 1, 7, 5, 0, 0, 5>>,
       <<0, 2, 3, 8, 8, 11, 13, 14>>,
       <<4, 4, 3, 9, 15, 0, 0, 15>>,
       <<8, 14, 3, 10, 6, 13, 6, 13>>,
       <<12, 8, 3, 11, 1, 6, 11, 12>>,
       <<0, 11, 2, 12, 4, 6, 11, 9>>,
       <<4, 13, 2, 13, 3, 13, 6, 8>>,
       <<8, 7, 2, 14, 10, 0, 0, 10>>,
       <<12, 1, 2, 15, 13, 11, 13, 11>> >>

INITIAL_CRC == <<15, 12, 6, 10, 7, 9, 5, 15>>

\* crc = (crc >> 4) ^ crctab[crc & 0xf]
CrcRound(c) ==
    LET t == crctab[c[1] + 1]
    IN  <<Xor4(c[2], t[1]), Xor4(c[3], t[2]), Xor4(c[4], t[3]), Xor4(c[5], t[4]),
          Xor4(c[6], t[5]), Xor4(c[7], t[6]), Xor4(c[8], t[7]), t[8]>>

\* One turn of the loop: crc ^= b, then the two table rounds.
CrcByte(c, b) ==
    CrcRound(CrcRound(<<Xor4(c[1], b % 16), Xor4(c[2], b \div 16),
                        c[3], c[4], c[5], c[6], c[7], c[8]>>))

\* The loop over buf[lo..hi], left to right.  The range is split in halves
\* and the left half's value is taken (Len(left) = 8 always holds) before
\* the right half starts, which keeps the evaluation shallow; the order of
\* the bytes is the loop's.
RECURSIVE CrcRange(_, _, _, _)
CrcRange(buf, lo, hi, c) ==
    IF lo > hi THEN c
    ELSE IF lo = hi THEN CrcByte(c, buf[lo])
    ELSE LET mid == (lo + hi) \div 2
             left == CrcRange(buf, lo, mid, c)
         IN  IF Len(left) = 8 THEN CrcRange(buf, mid + 1, hi, left) ELSE left

\* The value as the four bytes struct "<L" packs it to.
CrcBytes(c) ==
    <<c[1] + 16 * c[2], c[3] + 16 * c[4], c[5] + 16 * c[6], c[7] + 16 * c[8]>>

calc_crc(buf) == CrcBytes(CrcRange(buf, 1, Len(buf), INITIAL_CRC))

(***************************************************************************)
(* struct: little-endian fields.  "Q" and "L" numbers are packed from and  *)
(* unpacked to integers; a checksum ("L") is kept as its four bytes.       *)
(***************************************************************************)
Zeros(n) == [i \in 1..n |-> 0]

RECURSIVE PackLE(_, _)
PackLE(v, n) == IF n = 0 THEN <<>> ELSE <<v % 256>> \o PackLE(v \div 256, n - 1)

RECURSIVE UnpackLE(_)
UnpackLE(bytes) ==
    IF bytes = <<>> THEN 0
    ELSE IF \A i \in 1..Len(bytes) : bytes[i] = 0 THEN 0
    ELSE Head(bytes) + 256 * UnpackLE(Tail(bytes))

(***************************************************************************)
(* The file object: read(n) at a position returns what is there, fewer     *)
(* bytes than n at the end of the file; write at a position overwrites,    *)
(* and extends the file (zero-filling a gap) past its end.                 *)
(***************************************************************************)
FileRead(d, pos, n) ==
    IF pos >= Len(d) \/ n <= 0 THEN <<>> ELSE SubSeq(d, pos + 1, Min(pos + n, Len(d)))

FileWrite(d, pos, bytes) ==
    LET n == Len(bytes)
        pre == IF pos <= Len(d) THEN SubSeq(d, 1, pos) ELSE d \o Zeros(pos - Len(d))
        post == IF pos + n < Len(d) THEN SubSeq(d, pos + n + 1, Len(d)) ELSE <<>>
    IN  IF n = 0 THEN d ELSE pre \o bytes \o post

(***************************************************************************)
(* The struct layouts (CStruct sizes) and their pack / unpack              *)
(***************************************************************************)
SECTOR_SIZE == 512

HEADER_SIZE == 512

LABEL_SCAN_SECTORS == 4

LabelSize == 32

DiskLocSize == 16

PVHeaderSize == 40

RawLocSize == 24

MDAHeaderSize == 40

LABELID == <<76, 65, 66, 69, 76, 79, 78, 69>>

LabelHeader_unpack(b) ==
    [id |-> SubSeq(b, 1, 8), sector |-> UnpackLE(SubSeq(b, 9, 16)),
     crc |-> SubSeq(b, 17, 20), offset |-> UnpackLE(SubSeq(b, 21, 24)),
     type |-> SubSeq(b, 25, 32)]

LabelHeader_pack(l) ==
    l.id \o PackLE(l.sector, 8) \o l.crc \o PackLE(l.offset, 4) \o l.type

DiskLocN_unpack(b, pos) ==
    [offset |-> UnpackLE(SubSeq(b, 1, 8)), size |-> UnpackLE(SubSeq(b, 9, 16)),
     position |-> pos]

DiskLocN_pack(l) == PackLE(l.offset, 8) \o PackLE(l.size, 8)

PVHeader_unpack(b, pos) ==
    [uuid |-> SubSeq(b, 1, 32), disk_size |-> UnpackLE(SubSeq(b, 33, 40)),
     position |-> pos]

PVHeader_pack(p) == p.uuid \o PackLE(p.disk_size, 8)

RawLocN_unpack(b, pos) ==
    [offset |-> UnpackLE(SubSeq(b, 1, 8)), size |-> UnpackLE(SubSeq(b, 9, 16)),
     checksum |-> SubSeq(b, 17, 20), flags |-> UnpackLE(SubSeq(b, 21, 24)),
     position |-> pos]

RawLocN_pack(l) ==
    PackLE(l.offset, 8) \o PackLE(l.size, 8) \o l.checksum \o PackLE(l.flags, 4)

MDAHeader_unpack(b, pos) ==
    [checksum |-> SubSeq(b, 1, 4), magic |-> SubSeq(b, 5, 20),
     version |-> UnpackLE(SubSeq(b, 21, 24)), start |-> UnpackLE(SubSeq(b, 25, 32)),
     size |-> UnpackLE(SubSeq(b, 33, 40)), position |-> pos]

MDAHeader_pack(h) ==
    h.checksum \o h.magic \o PackLE(h.version, 4) \o PackLE(h.start, 8)
    \o PackLE(h.size, 8)

\* CStruct.read returns None on a short read; the model's None.
None == [none |-> TRUE]

(***************************************************************************)
(* The sentinel-terminated arrays.  A read returns the entries and the     *)
(* position the stream is left at.                                         *)
(***************************************************************************)
RECURSIVE DiskLocN_read_loop(_, _, _)
DiskLocN_read_loop(buf, pos, acc) ==
    LET data == FileRead(buf, pos, DiskLocSize)
        next == pos + Len(data)
    IN  IF Len(data) < DiskLocSize THEN [entries |-> acc, pos |-> next]
        ELSE IF DiskLocN_unpack(data, pos).offset = 0
        THEN [entries |-> acc, pos |-> next]
        ELSE DiskLocN_read_loop(buf, next, Append(acc, DiskLocN_unpack(data, pos)))

\* A faulty variant: the record that ends the array is left unread in the stream.
RECURSIVE DiskLocN_read_loop_unread(_, _, _)
DiskLocN_read_loop_unread(buf, pos, acc) ==
    LET data == FileRead(buf, pos, DiskLocSize)
        next == pos + Len(data)
    IN  IF Len(data) < DiskLocSize THEN [entries |-> acc, pos |-> next]
        ELSE IF DiskLocN_unpack(data, pos).offset = 0
        THEN [entries |-> acc, pos |-> pos]
        ELSE DiskLocN_read_loop_unread(buf, next, Append(acc, DiskLocN_unpack(data, pos)))

DiskLocN_read_array_unread(buf, pos) == DiskLocN_read_loop_unread(buf, pos, <<>>)

DiskLocN_read_array(buf, pos) == DiskLocN_read_loop(buf, pos, <<>>)

RECURSIVE RawLocN_read_loop(_, _, _)
RawLocN_read_loop(buf, pos, acc) ==
    LET data == FileRead(buf, pos, RawLocSize)
        next == pos + Len(data)
    IN  IF Len(data) < RawLocSize THEN [entries |-> acc, pos |-> next]
        ELSE IF RawLocN_unpack(data, pos).offset = 0
        THEN [entries |-> acc, pos |-> next]
        ELSE RawLocN_read_loop(buf, next, Append(acc, RawLocN_unpack(data, pos)))

RawLocN_read_array(buf, pos) == RawLocN_read_loop(buf, pos, <<>>)

(***************************************************************************)
(* LabelHeader.search, LabelHeader.read_pv_header, PVHeader.read           *)
(***************************************************************************)
\* The scan: the sectors are read one after the other from offset 0.
\* struct.unpack_from raises struct.error on a sector shorter than the
\* 32-byte label.
RECURSIVE LabelHeader_search_from(_, _)
LabelHeader_search_from(d, i) ==
    IF i >= LABEL_SCAN_SECTORS THEN [found |-> FALSE, err |-> "", at |-> i, data |-> None]
    ELSE LET sector == FileRead(d, i * SECTOR_SIZE, SECTOR_SIZE)
         IN  IF SubSeq(sector, 1, Min(Len(LABELID), Len(sector))) = LABELID
             THEN IF Len(sector) < LabelSize
                  THEN [found |-> FALSE, err |-> "struct.error", at |-> i, data |-> None]
                  ELSE [found |-> TRUE, err |-> "", at |-> i,
                        data |-> LabelHeader_unpack(sector)]
             ELSE LabelHeader_search_from(d, i + 1)

LabelHeader_search(d) == LabelHeader_search_from(d, 0)

PVHeader_read(d, pos) ==
    LET b == FileRead(d, pos, PVHeaderSize)
        data == IF Len(b) < PVHeaderSize THEN None ELSE PVHeader_unpack(b, pos)
        da == DiskLocN_read_array(d, pos + Len(b))
        ma == DiskLocN_read_array(d, da.pos)
    IN  [data |-> data, data_areas |-> da.entries, meta_areas |-> ma.entries,
         pos |-> pos, end |-> ma.pos]

\* offset = sector * self.sector_size + offset, from the label's own fields
PVHeaderOffset(lbl) == lbl.sector * SECTOR_SIZE + lbl.offset

LabelHeader_read_pv_header(lbl, d) == PVHeader_read(d, PVHeaderOffset(lbl))

(***************************************************************************)
(* MDAHeader                                                               *)
(***************************************************************************)
\* MDAHeader.read on the stream `buf` (an area's bytes), from its start.
MDAHeader_read(buf) ==
    LET b == FileRead(buf, 0, MDAHeaderSize)
        data == IF Len(b) < MDAHeaderSize THEN None ELSE MDAHeader_unpack(b, 0)
        locs == RawLocN_read_array(buf, Len(b))
    IN  [data |-> data, raw_locns |-> locs.entries]

RECURSIVE PackLocns(_)
PackLocns(locs) ==
    IF locs = <<>> THEN <<>> ELSE RawLocN_pack(Head(locs)) \o PackLocns(Tail(locs))

\* The staging buffer of MDAHeader.write before the checksum is patched in:
\* the packed header, the packed entries, and HEADER_SIZE - l zero bytes
\* (b"\0" * n is empty for a negative n).
MDAHeader_staging(h) ==
    LET body == MDAHeader_pack(h.data) \o PackLocns(h.raw_locns)
    IN  body \o Zeros(Max(HEADER_SIZE - Len(body), 0))

\* MDAHeader.write: the header object after it (checksum set) and the bytes
\* written at self.start.
MDAHeader_write(h) ==
    LET staged == MDAHeader_staging(h)
        checksum == calc_crc(SubSeq(staged, 5, Len(staged)))
        data2 == [h.data EXCEPT !.checksum = checksum]
        out == MDAHeader_pack(data2) \o SubSeq(staged, MDAHeaderSize + 1, Len(staged))
    IN  [hdr |-> [h EXCEPT !.data = data2], bytes |-> out]

\* Metadata.decode: data.decode("utf-8"), then decode_data.
Metadata_decode(bytes) ==
    IF ~Utf8Valid(bytes) THEN Raise("UnicodeDecodeError")
    ELSE decode_data(Utf8Decode(bytes))

\* Metadata.encode
Metadata_encode(items) == Utf8Encode(encode_data(items))

\* MDAHeader.read_metadata on the device d: the exception or the decoded
\* mapping, and the bytes fp.read returned.
MDAHeader_read_metadata(h, d) ==
    IF h.raw_locns = <<>> THEN [r |-> IndexError, data |-> <<>>]
    ELSE LET loc == h.raw_locns[1]
             offset == h.data.start + loc.offset
             data == FileRead(d, offset, loc.size)
         IN  [r |-> Metadata_decode(data), data |-> data]

\* MDAHeader.write_metadata on the device d: the blob is written at
\* start + offset, the entry's size and checksum are set, and the header
\* is written at start.
MDAHeader_write_metadata(h, d, items) ==
    LET bytes == Metadata_encode(items)
    IN  IF h.raw_locns = <<>>
        THEN [ok |-> FALSE, exc |-> "IndexError", hdr |-> h, disk |-> d, raw |-> bytes]
        ELSE LET loc == h.raw_locns[1]
                 offset == h.data.start + loc.offset
                 d1 == FileWrite(d, offset, bytes)
                 loc2 == [loc EXCEPT !.size = Len(bytes), !.checksum = calc_crc(bytes)]
                 h2 == [h EXCEPT !.raw_locns[1] = loc2]
                 w == MDAHeader_write(h2)
             IN  [ok |-> TRUE, exc |-> "", hdr |-> w.hdr,
                  disk |-> FileWrite(d1, h2.data.start, w.bytes), raw |-> bytes]

(***************************************************************************)
(* Entry point "codec": Metadata.encode_data and Metadata.decode_data on   *)
(* values and texts drawn from bounded sets.                               *)
(***************************************************************************)
MaxStrLen == 2

MaxListLen == 2

MaxTokens == 4

SeqsUpTo(S, n) == UNION {[1..k -> S] : k \in 0..n}

\* 'a' and the characters the substitutions touch
StrAlphabet == {97, EQUALS, COMMA, HASH, LBRACKET, RBRACKET, SP}

IntVals == {0 - 3, 0, 12}

ScalarVals ==
    {IntV(n) : n \in IntVals} \cup {StrV(s) : s \in SeqsUpTo(StrAlphabet, MaxStrLen)}

ListElems == {IntV(7), StrV(<<97>>), StrV(<<97, SP, 97>>)}

ListVals == {ListV(xs) : xs \in SeqsUpTo(ListElems, MaxListLen)}

KeyVG == <<118, 103>>

KeyK == <<107>>

SmallVals == {IntV(7), StrV(<<97>>), StrV(<<>>), ListV(<<IntV(7)>>)}

DictVals ==
    {DictV(<<>>)} \cup {DictV(<<Item(KeyK, v)>>) : v \in SmallVals}
    \cup {DictV(<<Item(KeyK, v), Item(KeyVG, w)>>) : v \in SmallVals, w \in SmallVals}

Mappings ==
    {<<Item(KeyVG, v)>> : v \in ScalarVals \cup ListVals \cup DictVals}
    \cup {<<Item(ks[1], IntV(7)), Item(ks[2], v)>> :
            ks \in {<<KeyVG, KeyK>>, <<KeyK, KeyVG>>}, v \in DictVals}

TokenSet ==
    {KeyVG, DICT_START, DICT_END, ARRAY_START, ARRAY_END, STRING_START, <<49>>}

RECURSIVE JoinTokens(_)
JoinTokens(toks) ==
    IF toks = <<>> THEN <<>>
    ELSE IF Len(toks) = 1 THEN toks[1]
    ELSE toks[1] \o <<SP>> \o JoinTokens(Tail(toks))

Idle ==
    /\ fp = "none" /\ nflush = 0 /\ nclose = 0
    /\ lbl_hdr = None /\ pv_hdr = None
    /\ area = 0 /\ run = 0 /\ err = "" /\ disk0 = <<>>

InitCodec ==
    /\ mode = "codec"
    /\ Idle /\ disk = <<>> /\ hdr = None
    /\ \/ \E m \in Mappings :
            /\ pc = "value" /\ md = m /\ raw = <<>>
            /\ hist = [kind |-> "value", input |-> m, rest |-> <<>>]
       \/ \E toks \in SeqsUpTo(TokenSet, MaxTokens) :
            /\ pc = "text" /\ md = <<>> /\ raw = JoinTokens(toks)
            /\ hist = [kind |-> "text", input |-> toks, rest |-> <<>>]

\* raw = Metadata.encode_data(md)
CodecEncode ==
    /\ mode = "codec" /\ pc = "value"
    /\ raw' = encode_data(md)
    /\ pc' = "text"
    /\ UNCHANGED <<mode, disk, fp, nflush, nclose, lbl_hdr, pv_hdr, hdr, md, area,
                   run, err, disk0, hist>>

\* name, md = Metadata.decode_data(raw)
CodecDecode ==
    /\ mode = "codec" /\ pc = "text"
    /\ LET r == decode_data(raw)
       IN  IF r.ok
           THEN /\ md' = r.val.v
                /\ pc' = "decoded"
                /\ err' = ""
                /\ hist' = [hist EXCEPT !.rest = r.rest]
           ELSE /\ pc' = "raised"
                /\ err' = r.exc
                /\ UNCHANGED <<md, hist>>
    /\ UNCHANGED <<mode, disk, fp, nflush, nclose, lbl_hdr, pv_hdr, hdr, raw, area,
                   run, disk0>>

NextCodec == CodecEncode \/ CodecDecode

SpecCodec == InitCodec /\ [][NextCodec]_vars

\* C1: for every valid mapping M, decode_data(encode_data(M)) returns a
\* mapping equal to M, keys in the same order; strings that hold '=', ',',
\* '#', '[', ']', runs of spaces or leading / trailing spaces come back
\* unchanged.
C1_RoundTrip ==
    (mode = "codec" /\ hist.kind = "value" /\ pc \in {"decoded", "raised"})
        => (pc = "decoded" /\ md = hist.input)

\* Braces and brackets outside strings are matched, every string is closed.
RECURSIVE WellNestedFrom(_, _, _)
WellNestedFrom(toks, inStr, open) ==
    IF toks = <<>> THEN ~inStr /\ open = <<>>
    ELSE LET t == Head(toks)
         IN  IF inStr THEN WellNestedFrom(Tail(toks), t # STRING_END, open)
             ELSE IF t = STRING_START THEN WellNestedFrom(Tail(toks), TRUE, open)
             ELSE IF t \in {DICT_START, ARRAY_START}
             THEN WellNestedFrom(Tail(toks), FALSE, <<t>> \o open)
             ELSE IF t = DICT_END
             THEN open # <<>> /\ Head(open) = DICT_START
                  /\ WellNestedFrom(Tail(toks), FALSE, Tail(open))
             ELSE IF t = ARRAY_END
             THEN open # <<>> /\ Head(open) = ARRAY_START
                  /\ WellNestedFrom(Tail(toks), FALSE, Tail(open))
             ELSE WellNestedFrom(Tail(toks), FALSE, open)

WellNested(toks) == WellNestedFrom(toks, FALSE, <<>>)

\* C7: decode_data never returns a mapping for a malformed token stream:
\* when it returns one, every block and array of the stream was closed, no
\* closing brace or bracket lacked its opener, and no token was left unread.
C7_MalformedRejected ==
    (mode = "codec" /\ hist.kind = "text" /\ pc = "decoded")
        => (WellNested(hist.input) /\ hist.rest = <<>>)

(***************************************************************************)
(* Entry point "array": PVHeader.read and MDAHeader.read on streams that   *)
(* hold records followed by an all-zero record.                            *)
(***************************************************************************)
MaxAreas == 2

MaxLocns == 2

AreaRecords == {[offset |-> o, size |-> s] : o \in {1, 256}, s \in {0, 8}}

LocnRecords ==
    {[offset |-> o, size |-> s, checksum |-> <<1, 2, 3, 4>>, flags |-> f] :
        o \in {1, 512}, s \in {0, 8}, f \in {0, 1}}

RECURSIVE PackAreas(_)
PackAreas(areas) ==
    IF areas = <<>> THEN <<>> ELSE DiskLocN_pack(Head(areas)) \o PackAreas(Tail(areas))

UUID == [i \in 1..32 |-> 65]

MAGIC == <<32, 76, 86, 77, 50, 32, 120, 91, 53, 65, 37, 114, 48, 78, 42, 62>>

InitArray ==
    /\ mode = "array"
    /\ Idle /\ md = <<>> /\ raw = <<>> /\ hdr = None
    /\ \/ \E da \in SeqsUpTo(AreaRecords, MaxAreas), ma \in SeqsUpTo(AreaRecords, MaxAreas),
            pos \in {0, LabelSize} :
            /\ pc = "pv"
            /\ disk = Zeros(pos)
                      \o PVHeader_pack([uuid |-> UUID, disk_size |-> 4096])
                      \o PackAreas(da) \o Zeros(DiskLocSize)
                      \o PackAreas(ma) \o Zeros(DiskLocSize)
            /\ hist = [pos |-> pos, da |-> da, ma |-> ma, locs |-> <<>>]
       \/ \E locs \in SeqsUpTo(LocnRecords, MaxLocns) :
            /\ pc = "mda"
            /\ disk = MDAHeader_pack([checksum |-> <<0, 0, 0, 0>>, magic |-> MAGIC,
                                      version |-> 1, start |-> 4096, size |-> 8192])
                      \o PackLocns(locs) \o Zeros(RawLocSize)
            /\ hist = [pos |-> 0, da |-> <<>>, ma |-> <<>>, locs |-> locs]

\* fp.seek(pos); pv_hdr = PVHeader.read(fp)
ArrayPVRead ==
    /\ mode = "array" /\ pc = "pv"
    /\ pv_hdr' = PVHeader_read(disk, hist.pos)
    /\ pc' = "pv_read"
    /\ UNCHANGED <<mode, disk, fp, nflush, nclose, lbl_hdr, hdr, md, raw, area, run,
                   err, disk0, hist>>

\* hdr = MDAHeader.read(stream)
ArrayMDARead ==
    /\ mode = "array" /\ pc = "mda"
    /\ hdr' = MDAHeader_read(disk)
    /\ pc' = "mda_read"
    /\ UNCHANGED <<mode, disk, fp, nflush, nclose, lbl_hdr, pv_hdr, md, raw, area, run,
                   err, disk0, hist>>

NextArray == ArrayPVRead \/ ArrayMDARead

SpecArray == InitArray /\ [][NextArray]_vars

\* The offset and size of the decoded entries, in order.
AreaFields(entries) ==
    [i \in 1..Len(entries) |-> [offset |-> entries[i].offset, size |-> entries[i].size]]

LocnFields(entries) ==
    [i \in 1..Len(entries) |->
        [offset |-> entries[i].offset, size |-> entries[i].size,
         checksum |-> entries[i].checksum, flags |-> entries[i].flags]]

\* The stream position of each decoded entry: base + (i - 1) * size.
PositionsFrom(entries, base, size) ==
    \A i \in 1..Len(entries) : entries[i].position = base + (i - 1) * size

\* C10: a stream of N records with nonzero offset and an all-zero record
\* decodes to exactly those N entries, in order, and the all-zero record is
\* consumed: PVHeader.read of N data-area records, a sentinel, M
\* metadata-area records and a sentinel yields data_areas of length N and
\* meta_areas of length M, each holding its own records, and leaves the
\* stream after the second sentinel; MDAHeader.read (RawLocN.read_array)
\* yields exactly the N raw location entries.
C10_SentinelArrays ==
    /\ (mode = "array" /\ pc = "pv_read") =>
          /\ AreaFields(pv_hdr.data_areas) = hist.da
          /\ AreaFields(pv_hdr.meta_areas) = hist.ma
          /\ PositionsFrom(pv_hdr.data_areas, hist.pos + PVHeaderSize, DiskLocSize)
          /\ PositionsFrom(pv_hdr.meta_areas,
                           hist.pos + PVHeaderSize + (Len(hist.da) + 1) * DiskLocSize,
                           DiskLocSize)
          /\ pv_hdr.end = hist.pos + PVHeaderSize
                            + (Len(hist.da) + 1 + Len(hist.ma) + 1) * DiskLocSize
    /\ (mode = "array" /\ pc = "mda_read") =>
          /\ LocnFields(hdr.raw_locns) = hist.locs
          /\ PositionsFrom(hdr.raw_locns, MDAHeaderSize, RawLocSize)

\* Both lists non-empty and of different lengths, read by PVHeader.read.
C10_Witness ==
    /\ mode = "array" /\ pc = "pv_read"
    /\ Len(hist.da) = 2 /\ Len(hist.ma) = 1
    /\ Len(pv_hdr.data_areas) = 2 /\ Len(pv_hdr.meta_areas) = 1

(***************************************************************************)
(* Entry point "mda": MDAHeader.write and MDAHeader.write_metadata /       *)
(* read_metadata on a header object built by its constructor.              *)
(***************************************************************************)
MaxHeldLocns == 20

MdaDiskLen == 1024

\* The byte the device is filled with before the operation.
FillByte == 238

\* The value of the end-to-end scenario: {vg0: {id: "abc", seqno: 3}}
KeyVG0 == <<118, 103, 48>>

KeyId == <<105, 100>>

KeySeqno == <<115, 101, 113, 110, 111>>

ScenarioValue ==
    <<Item(KeyVG0, DictV(<<Item(KeyId, StrV(<<97, 98, 99>>)), Item(KeySeqno, IntV(3))>>))>>

MdaValues ==
    { ScenarioValue,
      <<Item(KeyVG0, DictV(<<Item(KeyId, StrV(<<97, EQUALS, 98>>))>>))>>,
      <<Item(KeyVG0, DictV(<<>>)), Item(KeySeqno, IntV(3))>> }

\* Entry i of a header holding n entries; the committed one is at `off`.
HeldLocn(i, off) ==
    [offset |-> IF i = 1 THEN off ELSE 600 + i, size |-> i,
     checksum |-> <<i, 0, 0, 0>>, flags |-> 0, position |-> 0]

InitMda ==
    /\ mode = "mda"
    /\ Idle /\ raw = <<>> /\ pc = "ready"
    /\ disk = [i \in 1..MdaDiskLen |-> FillByte]
    /\ \E start \in {0, 64}, n \in 0..MaxHeldLocns, off \in {0, 88, 512, 600},
          op \in {"write", "write_metadata"}, v \in MdaValues :
          /\ op = "write" => (v = ScenarioValue /\ off = 512)
          /\ hdr = [data |-> [checksum |-> <<0, 0, 0, 0>>, magic |-> MAGIC, version |-> 1,
                              start |-> start, size |-> MdaDiskLen, position |-> 0],
                    raw_locns |-> [i \in 1..n |-> HeldLocn(i, off)]]
          /\ md = v
          /\ hist = [op |-> op, v |-> v, n |-> 0]

\* hdr.write(fp)
MdaWrite ==
    /\ mode = "mda" /\ pc = "ready" /\ hist.op = "write"
    /\ LET w == MDAHeader_write(hdr)
       IN  /\ disk' = FileWrite(disk, hdr.data.start, w.bytes)
           /\ hdr' = w.hdr
           /\ hist' = [hist EXCEPT !.n = Len(w.bytes)]
    /\ pc' = "header_written"
    /\ disk0' = disk
    /\ UNCHANGED <<mode, fp, nflush, nclose, lbl_hdr, pv_hdr, md, raw, area, run, err>>

\* hdr.write_metadata(fp, Metadata(name, md))
MdaWriteMetadata ==
    /\ mode = "mda" /\ pc = "ready" /\ hist.op = "write_metadata"
    /\ LET w == MDAHeader_write_metadata(hdr, disk, md)
       IN  /\ disk' = w.disk
           /\ hdr' = w.hdr
           /\ raw' = w.raw
           /\ err' = w.exc
           /\ pc' = IF w.ok THEN "written" ELSE "raised"
    /\ disk0' = disk
    /\ UNCHANGED <<mode, fp, nflush, nclose, lbl_hdr, pv_hdr, md, area, run, hist>>

\* md = hdr.read_metadata(fp).data
MdaReadMetadata ==
    /\ mode = "mda" /\ pc = "written"
    /\ LET g == MDAHeader_read_metadata(hdr, disk)
       IN  IF g.r.ok
           THEN /\ md' = g.r.val.v /\ pc' = "reread" /\ err' = ""
           ELSE /\ md' = md /\ pc' = "raised" /\ err' = g.r.exc
    /\ UNCHANGED <<mode, disk, fp, nflush, nclose, lbl_hdr, pv_hdr, hdr, raw, area, run,
                   disk0, hist>>

NextMda == MdaWrite \/ MdaWriteMetadata \/ MdaReadMetadata

SpecMda == InitMda /\ [][NextMda]_vars

\* The 512-byte header region of the header `h` on the device d.
HeaderRegion(h, d) == FileRead(d, h.data.start, HEADER_SIZE)

\* The committed entry as stored on the device.
StoredCommitted(h, d) ==
    RawLocN_unpack(FileRead(d, h.data.start + MDAHeaderSize, RawLocSize), MDAHeaderSize)

\* C2: for a header holding a committed entry, at any offset relative to
\* header.start, after write_metadata(v): the device bytes at
\* [start + offset, start + offset + size) are the encoded blob of v, the
\* entry stored on the device has the written length as size and the
\* checksum of those device bytes as checksum, and a following
\* read_metadata returns v.
C2_WriteMetadata ==
    (mode = "mda" /\ hist.op = "write_metadata" /\ Len(hdr.raw_locns) >= 1
     /\ pc \in {"written", "reread", "raised"})
        => LET loc == hdr.raw_locns[1]
               blob == Metadata_encode(hist.v)
               ondisk == FileRead(disk, hdr.data.start + loc.offset, Len(blob))
               stored == StoredCommitted(hdr, disk)
           IN  /\ pc # "raised"
               /\ ondisk = blob
               /\ stored.size = Len(blob)
               /\ stored.checksum = calc_crc(ondisk)
               /\ pc = "reread" => md = hist.v

\* C6: for any header fields and any number of held entries, write() writes
\* exactly 512 bytes at header.start, and the checksum stored in the first
\* 4 bytes of that region is the checksum of bytes 4..511 of the region as
\* read back from the device.
C6_HeaderChecksum ==
    (mode = "mda" /\ pc = "header_written")
        => /\ hist.n = HEADER_SIZE
           /\ SubSeq(HeaderRegion(hdr, disk), 1, 4)
                = calc_crc(SubSeq(HeaderRegion(hdr, disk), 5, HEADER_SIZE))

(***************************************************************************)
(* Entry point "main": main() on a device image, run up to MaxRuns times   *)
(* in a row on the same device.                                            *)
(*     with Disk.open(path) as disk: disk.dump(); disk.read_metadata()     *)
(***************************************************************************)
MaxSector == 3

MaxRuns == 2

\* Bytes missing at the end of a device that was cut short.
CutBytes == 3

\* The layout of the images: the metadata areas follow the scanned sectors.
AreaSize == 640

FirstAreaOffset == LABEL_SCAN_SECTORS * SECTOR_SIZE

AreaOffset(k) == FirstAreaOffset + (k - 1) * AreaSize

\* The committed blob's offset in these images, relative to header.start.
BlobOffset == HEADER_SIZE

LVM2_TYPE == <<76, 86, 77, 50, 32, 48, 48, 49>>

\* Pieces of the committed text.
BlobOpen == <<118, 103, 48, 32, 123, 10>>

BodyScenario ==
    <<105, 100, 32, 61, 32, 34, 97, 98, 99, 34, 10, 115, 101, 113, 110, 111, 32, 61, 32, 51, 10>>

BodyEquals == <<105, 100, 32, 61, 32, 34, 97, 61, 98, 34, 10>>

BodyBareWord == <<105, 100, 32, 61, 32, 97, 98, 99, 10>>

BodyBadUtf8 == <<105, 100, 32, 61, 32, 34, 255, 34, 10>>

BlobClose == <<125, 10>>

TailHash == <<120, 32, 61, 32, 34, 97, 35, 98, 34>>

PrefixComment == <<35, 32, 99, 10>>

GoodBlob == <<118, 103, 48, 32, 123, 10, 115, 101, 113, 110, 111, 32, 61, 32, 51, 10, 125, 10, 10, 0>>

Trailer == <<90, 90, 90, 90>>

Blobs ==
    {prefix \o BlobOpen \o body \o BlobClose \o tail \o <<NUL>> :
        prefix \in {<<>>, PrefixComment},
        body \in {BodyScenario, BodyEquals, BodyBareWord, BodyBadUtf8},
        tail \in {<<>>, TailHash}}

\* One metadata area: the header (its checksum valid), the committed blob
\* at BlobOffset, a precommitted entry when `pre`.
AreaHeader(k, blob, pre) ==
    MDAHeader_write(
        [data |-> [checksum |-> <<0, 0, 0, 0>>, magic |-> MAGIC, version |-> 1,
                   start |-> AreaOffset(k), size |-> AreaSize, position |-> 0],
         raw_locns |->
            <<[offset |-> BlobOffset, size |-> Len(blob), checksum |-> calc_crc(blob),
               flags |-> 0, position |-> 0]>>
            \o (IF pre THEN <<[offset |-> BlobOffset + 100, size |-> 5,
                               checksum |-> <<9, 9, 9, 9>>, flags |-> 0, position |-> 0]>>
                ELSE <<>>)]).bytes

PadTo(bytes, n) == bytes \o Zeros(Max(n - Len(bytes), 0))

\* The sector that holds the label and, at the label's offset, the PV header.
LabelSector(stored, nareas) ==
    PadTo(LabelHeader_pack([id |-> LABELID, sector |-> stored, crc |-> <<0, 0, 0, 0>>,
                            offset |-> LabelSize, type |-> LVM2_TYPE])
          \o PVHeader_pack([uuid |-> UUID, disk_size |-> AreaOffset(nareas + 2)])
          \o DiskLocN_pack([offset |-> AreaOffset(nareas + 1), size |-> AreaSize])
          \o Zeros(DiskLocSize)
          \o PackAreas([k \in 1..nareas |-> [offset |-> AreaOffset(k), size |-> AreaSize]])
          \o Zeros(DiskLocSize),
          SECTOR_SIZE)

RECURSIVE Sectors(_, _, _, _)
Sectors(i, ls, stored, nareas) ==
    IF i >= LABEL_SCAN_SECTORS THEN <<>>
    ELSE (IF i = ls THEN LabelSector(stored, nareas) ELSE Zeros(SECTOR_SIZE))
         \o Sectors(i + 1, ls, stored, nareas)

\* The device: the label in sector ls (none when ls = LABEL_SCAN_SECTORS)
\* with `stored` in its sector field; nareas metadata areas, the last one
\* holding `blob`, the ones before it GoodBlob; after the last blob either
\* the trailer bytes, or the device is CutBytes short of the blob's end.
Image(ls, stored, nareas, blob, pre, cut) ==
    Sectors(0, ls, stored, nareas)
    \o (IF nareas = 2 THEN PadTo(AreaHeader(1, GoodBlob, FALSE) \o GoodBlob, AreaSize)
        ELSE <<>>)
    \o AreaHeader(nareas, blob, pre)
    \o (IF cut THEN SubSeq(blob, 1, Len(blob) - CutBytes) ELSE blob \o Trailer)

NoStep ==
    [n |-> 0, start |-> 0, off |-> 0, size |-> 0, blob |-> <<>>, nlocs |-> 0, ok |-> TRUE]

InitMain ==
    /\ mode = "main"
    /\ Idle /\ hdr = None /\ md = <<>> /\ raw = <<>> /\ pc = "start"
    /\ \/ \E ls \in 0..LABEL_SCAN_SECTORS, stored \in 0..MaxSector :
            /\ ls = LABEL_SCAN_SECTORS => stored = 0
            /\ disk = Image(ls, stored, 1, GoodBlob, FALSE, FALSE)
       \/ \E nareas \in {1, 2}, blob \in Blobs, pre \in BOOLEAN, cut \in BOOLEAN :
            disk = Image(1, 1, nareas, blob, pre, cut)
    /\ hist = [runs |-> 1, first_ok |-> FALSE, at_start |-> disk, step |-> NoStep]

\* Disk.open: open the file, LabelHeader.search, Disk.__init__ (which reads
\* the PV header).  An exception leaves the function with fp still open.
DiskOpen ==
    /\ mode = "main" /\ pc = "start"
    /\ fp' = "open"
    /\ LET s == LabelHeader_search(disk)
       IN  IF s.err # ""
           THEN /\ err' = s.err /\ pc' = "open_failed"
                /\ UNCHANGED <<lbl_hdr, pv_hdr>>
           ELSE IF ~s.found
           THEN /\ err' = "RuntimeError" /\ pc' = "open_failed"
                /\ UNCHANGED <<lbl_hdr, pv_hdr>>
           ELSE /\ lbl_hdr' = s.data
                /\ pv_hdr' = LabelHeader_read_pv_header(s.data, disk)
                /\ err' = "" /\ pc' = "opened"
    /\ UNCHANGED <<mode, disk, nflush, nclose, hdr, md, raw, area, run, disk0, hist>>

\* Disk.__enter__ (fp is set), then disk.dump(), which only prints.
DiskEnter ==
    /\ mode = "main" /\ pc = "opened" /\ fp = "open"
    /\ pc' = "in_with"
    /\ area' = 0
    /\ UNCHANGED <<mode, disk, fp, nflush, nclose, lbl_hdr, pv_hdr, hdr, md, raw, run,
                   err, disk0, hist>>

\* One turn of the loop of Disk.read_metadata, on metadata area area + 1:
\* ma.read_data, MDAHeader.read, hdr.read_metadata, print, hdr.write_metadata.
ReadMetadataArea ==
    /\ mode = "main" /\ pc = "in_with" /\ area < Len(pv_hdr.meta_areas)
    /\ LET ma == pv_hdr.meta_areas[area + 1]
           data == FileRead(disk, ma.offset, ma.size)
           h == MDAHeader_read(data)
           g == MDAHeader_read_metadata(h, disk)
           w == MDAHeader_write_metadata(h, disk, g.r.val.v)
           step == IF h.raw_locns = <<>> THEN [NoStep EXCEPT !.n = area + 1, !.ok = FALSE]
                   ELSE [n |-> area + 1, start |-> h.data.start,
                         off |-> h.raw_locns[1].offset, size |-> h.raw_locns[1].size,
                         blob |-> g.data, nlocs |-> Len(h.raw_locns), ok |-> g.r.ok]
       IN  /\ hist' = [hist EXCEPT !.step = step]
           /\ IF ~g.r.ok
              THEN /\ err' = g.r.exc /\ pc' = "exiting"
                   /\ hdr' = h
                   /\ UNCHANGED <<disk, md, raw, area>>
              ELSE /\ disk' = w.disk /\ hdr' = w.hdr /\ md' = g.r.val.v /\ raw' = w.raw
                   /\ area' = area + 1
                   /\ UNCHANGED <<err, pc>>
    /\ disk0' = disk
    /\ UNCHANGED <<mode, fp, nflush, nclose, lbl_hdr, pv_hdr, run>>

\* The loop of Disk.read_metadata is over: the with-block ends.
ReadMetadataReturn ==
    /\ mode = "main" /\ pc = "in_with" /\ area = Len(pv_hdr.meta_areas)
    /\ pc' = "exiting"
    /\ run' = run + 1
    /\ UNCHANGED <<mode, disk, fp, nflush, nclose, lbl_hdr, pv_hdr, hdr, md, raw, area,
                   err, disk0, hist>>

\* Disk.__exit__, on the normal and on the exceptional way out of the block.
DiskExit ==
    /\ mode = "main" /\ pc = "exiting"
    /\ IF fp = "open"
       THEN /\ nflush' = nflush + 1 /\ nclose' = nclose + 1 /\ fp' = "closed"
       ELSE UNCHANGED <<nflush, nclose, fp>>
    /\ pc' = IF err = "" THEN "done" ELSE "failed"
    /\ UNCHANGED <<mode, disk, lbl_hdr, pv_hdr, hdr, md, raw, area, run, err, disk0, hist>>

\* The program has ended; it is started again on the same device.
Rerun ==
    /\ mode = "main" /\ pc \in {"done", "failed", "open_failed"} /\ hist.runs < MaxRuns
    /\ pc' = "start"
    /\ fp' = "none" /\ nflush' = 0 /\ nclose' = 0
    /\ lbl_hdr' = None /\ pv_hdr' = None /\ hdr' = None /\ md' = <<>> /\ raw' = <<>>
    /\ area' = 0 /\ err' = ""
    /\ disk0' = disk
    /\ hist' = [runs |-> hist.runs + 1, first_ok |-> pc = "done", at_start |-> disk,
                step |-> NoStep]
    /\ UNCHANGED <<mode, disk, run>>

NextMain ==
    DiskOpen \/ DiskEnter \/ ReadMetadataArea \/ ReadMetadataReturn \/ DiskExit \/ Rerun

SpecMain == InitMain /\ [][NextMain]_vars

\* The tokens of a committed blob as decode_data sees them.
BlobTokens(bytes) == Split(Substitute(Utf8Decode(bytes)))

\* C3: the read-modify-write of one metadata area is all-or-nothing: when
\* the committed blob cannot be read in full (fewer bytes than entry.size),
\* is not valid UTF-8 or violates the grammar, the operation fails; and
\* when it fails, no byte of the device has been written.
C3_AllOrNothing ==
    (mode = "main" /\ hist.step.n > 0 /\ hist.step.nlocs > 0)
        => LET s == hist.step
           IN  /\ Len(s.blob) < s.size => ~s.ok
               /\ ~Utf8Valid(s.blob) => ~s.ok
               /\ (Utf8Valid(s.blob) /\ ~WellNested(BlobTokens(s.blob))) => ~s.ok
               /\ ~s.ok => disk = disk0

\* What the idempotence claim compares, for the metadata area ma of device d.
Committed(d, ma) ==
    LET h == MDAHeader_read(FileRead(d, ma.offset, ma.size))
        loc == h.raw_locns[1]
    IN  [blob |-> FileRead(d, h.data.start + loc.offset, loc.size),
         size |-> loc.size, checksum |-> loc.checksum,
         header_checksum |-> h.data.checksum]

\* C4: when a first run of Disk.read_metadata succeeds, a second run on
\* the same device succeeds too and leaves the committed blob, the
\* committed entry's size and checksum and the header checksum of every
\* metadata area as the first run left them.
C4_Idempotent ==
    (mode = "main" /\ hist.runs = 2 /\ hist.first_ok
     /\ pc \in {"done", "failed", "open_failed"})
        => IF pc # "done" THEN FALSE
           ELSE \A k \in 1..Len(pv_hdr.meta_areas) :
                    Committed(disk, pv_hdr.meta_areas[k])
                        = Committed(hist.at_start, pv_hdr.meta_areas[k])

\* C5: after a metadata area is processed, every byte of the device outside
\* the area's 512-byte header region and outside the range the committed
\* blob occupied before is unchanged, and the raw location entries at
\* index >= 1 are byte-identical to what they were.
C5_Frame ==
    (mode = "main" /\ hist.step.n > 0 /\ hist.step.ok)
        => LET s == hist.step
               inHeader(p) == p >= s.start /\ p < s.start + HEADER_SIZE
               inOldBlob(p) == p >= s.start + s.off /\ p < s.start + s.off + s.size
               others == s.start + MDAHeaderSize + RawLocSize
           IN  /\ \A p \in 0..(Len(disk0) - 1) :
                     (~inHeader(p) /\ ~inOldBlob(p)) => disk[p + 1] = disk0[p + 1]
               /\ FileRead(disk, others, (s.nlocs - 1) * RawLocSize)
                    = FileRead(disk0, others, (s.nlocs - 1) * RawLocSize)

\* C8: in every execution that opens the device file, the handle has been
\* flushed and closed exactly once when the program ends, on every way out
\* (normal end, label not found, failure in read_metadata).
C8_ClosedOnce ==
    (mode = "main" /\ pc \in {"done", "failed", "open_failed"} /\ fp # "none")
        => (fp = "closed" /\ nclose = 1 /\ nflush = 1)

\* The sectors 0..3 of the device that start with the marker.
LabelSectors(d) ==
    {i \in 0..(LABEL_SCAN_SECTORS - 1) :
        FileRead(d, i * SECTOR_SIZE, Len(LABELID)) = LABELID}

\* C9: when sector i is the lowest of sectors 0..3 that starts with the
\* marker, open returns the label decoded from sector i and reads the PV
\* header at i * 512 + the label's offset field, whatever the label's
\* sector field holds; with no marker in sectors 0..3 open fails with the
\* label-not-found error and reads no PV header.
C9_LabelDiscovery ==
    (mode = "main" /\ pc \in {"opened", "open_failed"})
        => IF LabelSectors(disk) = {}
           THEN pc = "open_failed" /\ err = "RuntimeError" /\ pv_hdr = None
           ELSE LET i == CHOOSE i \in LabelSectors(disk) :
                             \A j \in LabelSectors(disk) : i <= j
                IN  /\ pc = "opened"
                    /\ lbl_hdr = LabelHeader_unpack(FileRead(disk, i * SECTOR_SIZE, SECTOR_SIZE))
                    /\ pv_hdr.pos = i * SECTOR_SIZE + lbl_hdr.offset

Init == InitCodec \/ InitArray \/ InitMda \/ InitMain

Next == NextCodec \/ NextArray \/ NextMda \/ NextMain

Spec == Init /\ [][Next]_vars

====
